---------------------------- MODULE Spec2Model ----------------------------
(***************************************************************************)
(* A model of src/msld.py: the MSLD class (Multi-Scale Line Detector), its *)
(* constructor, basic_line_detector, multi_scale_line_detector,            *)
(* learn_threshold, segment_vessels, roc, the unimplemented metrics, and   *)
(* the module-level dice function.                                         *)
(*                                                                         *)
(* Numbers.  Python floats are modelled by exact values: a rational n/d in *)
(* lowest terms, NaN, or +/-inf.  IEEE rules are kept where the code meets *)
(* them (0/0 = NaN, NaN propagates, argmax of NaNs).  Rounding error is    *)
(* not modelled.  The square root of np.std is exact: the images the model *)
(* feeds to the detector are chosen so that the variance of every response*)
(* map is the square of a rational (or zero).                              *)
(*                                                                         *)
(* Arrays.  A 2-D array is a sequence of rows; a boolean array holds       *)
(* TRUE/FALSE.  A kernel of the mask stack is kept with the angle it was   *)
(* rotated by; its pixels are modelled for l = 1 and for rotations by 0    *)
(* and 90 degrees, where cv2.warpAffine resamples without interpolation.   *)
(***************************************************************************)
EXTENDS Integers, Sequences, FiniteSets

VARIABLES
    constructed,           \* an MSLD instance exists (__init__ returned)
    W,                     \* self.W
    L,                     \* self.L
    n_orientation,         \* self.n_orientation
    threshold,             \* self.threshold
    avg_mask,              \* self.avg_mask
    line_detectors_masks,  \* self.line_detectors_masks: l -> stack of kernels
    y_true,                \* self.y_true, the label vector cached by roc
    inf_first,             \* the installed roc_curve starts thresholds with inf
    call,                  \* the last call: [op, arg]
    ret                    \* its outcome: [kind, val]

vars == <<constructed, W, L, n_orientation, threshold, avg_mask,
          line_detectors_masks, y_true, inf_first, call, ret>>

\* the attributes set by the constructor and never assigned again
instance == <<constructed, W, L, n_orientation, avg_mask, line_detectors_masks>>

-----------------------------------------------------------------------------
(* Floats *)

Abs(x) == IF x < 0 THEN -x ELSE x

RECURSIVE GCD(_, _)
GCD(a, b) == IF b = 0 THEN a ELSE GCD(b, a % b)

NaN == [k |-> "nan", n |-> 0, d |-> 1]
Inf == [k |-> "inf", n |-> 1, d |-> 1]
NegInf == [k |-> "inf", n |-> -1, d |-> 1]
\* an attribute that does not exist yet
Unset == [k |-> "unset", n |-> 0, d |-> 1]

\* n/d (d # 0) in lowest terms with a positive denominator
Rat(n, d) ==
    LET g == GCD(Abs(n), Abs(d))
        s == IF d < 0 THEN -1 ELSE 1
    IN  [k |-> "rat", n |-> (s * n) \div g, d |-> (s * d) \div g]

Int2Num(i) == Rat(i, 1)
Zero == Int2Num(0)
One == Int2Num(1)

Sign(a) == IF a.n > 0 THEN 1 ELSE IF a.n < 0 THEN -1 ELSE 0

Neg(a) == IF a.k = "nan" THEN NaN ELSE [a EXCEPT !.n = -a.n]

Add(a, b) ==
    IF a.k = "rat" /\ b.k = "rat" THEN Rat(a.n * b.d + b.n * a.d, a.d * b.d)
    ELSE IF a.k = "inf" /\ b.k = "rat" THEN a
    ELSE IF a.k = "rat" /\ b.k = "inf" THEN b
    ELSE IF a.k = "inf" /\ b.k = "inf" /\ a.n = b.n THEN a
    ELSE NaN

Sub(a, b) == Add(a, Neg(b))

Mul(a, b) ==
    IF a.k = "rat" /\ b.k = "rat" THEN Rat(a.n * b.n, a.d * b.d)
    ELSE IF a.k = "nan" \/ b.k = "nan" THEN NaN
    ELSE IF Sign(a) * Sign(b) = 0 THEN NaN
    ELSE IF Sign(a) * Sign(b) > 0 THEN Inf ELSE NegInf

\* numpy's true division: 0/0 is NaN and x/0 is a signed infinity
Div(a, b) ==
    IF a.k = "rat" /\ b.k = "rat"
    THEN IF b.n # 0 THEN Rat(a.n * b.d, a.d * b.n)
         ELSE IF a.n = 0 THEN NaN
         ELSE IF a.n > 0 THEN Inf ELSE NegInf
    ELSE IF a.k = "nan" \/ b.k = "nan" THEN NaN
    ELSE IF a.k = "inf" /\ b.k = "inf" THEN NaN
    ELSE IF a.k = "inf" THEN (IF Sign(a) * (IF Sign(b) < 0 THEN -1 ELSE 1) > 0 THEN Inf ELSE NegInf)
    ELSE Zero

\* a < b; every comparison with NaN is false
Less(a, b) ==
    IF a.k = "nan" \/ b.k = "nan" THEN FALSE
    ELSE IF a.k = "rat" /\ b.k = "rat" THEN a.n * b.d < b.n * a.d
    ELSE IF a.k = "inf" /\ b.k = "inf" THEN a.n < b.n
    ELSE IF a.k = "inf" THEN a.n < 0
    ELSE b.n > 0

\* a >= b
GreaterEq(a, b) == a.k # "nan" /\ b.k # "nan" /\ ~Less(a, b)

\* np.maximum on two finite floats
Maximum(a, b) == IF Less(a, b) THEN b ELSE a

\* the natural r with r*r = n (n a perfect square)
ISqrt(n) == CHOOSE r \in 0..n : r * r = n

\* np.sqrt of a non-negative rational whose root is rational
Sqrt(a) == Rat(ISqrt(a.n), ISqrt(a.d))

-----------------------------------------------------------------------------
(* Arrays *)

\* F(v) with v evaluated once, however often F reads its argument
With(v, F(_)) == CHOOSE y \in {F(x) : x \in {v}} : TRUE

RECURSIVE SumSeq(_)
SumSeq(s) == IF s = <<>> THEN Zero ELSE Add(s[1], SumSeq(Tail(s)))

RECURSIVE Concat(_)
\* np.concatenate of a non-empty list of vectors; row-major flattening of rows
Concat(ss) == IF ss = <<>> THEN <<>> ELSE ss[1] \o Concat(Tail(ss))

Rows(m) == Len(m)
Cols(m) == IF Len(m) = 0 THEN 0 ELSE Len(m[1])
Shape(m) == <<Rows(m), Cols(m)>>

Full(h, w, x) == [r \in 1..h |-> [c \in 1..w |-> x]]

\* an integer-valued image as an array of floats
FloatImage(img) == [r \in 1..Rows(img) |-> [c \in 1..Cols(img) |-> Int2Num(img[r][c])]]

\* elementwise binary and unary operations (shapes agree)
AddM(a, b) == [r \in 1..Rows(a) |-> [c \in 1..Cols(a) |-> Add(a[r][c], b[r][c])]]
SubM(a, b) == [r \in 1..Rows(a) |-> [c \in 1..Cols(a) |-> Sub(a[r][c], b[r][c])]]
MaximumM(a, b) == [r \in 1..Rows(a) |-> [c \in 1..Cols(a) |-> Maximum(a[r][c], b[r][c])]]
ScaleM(x, a) == [r \in 1..Rows(a) |-> [c \in 1..Cols(a) |-> Mul(x, a[r][c])]]
ShiftM(a, x) == [r \in 1..Rows(a) |-> [c \in 1..Cols(a) |-> Sub(a[r][c], x)]]
DivM(a, x) == [r \in 1..Rows(a) |-> [c \in 1..Cols(a) |-> Div(a[r][c], x)]]

Size(a) == Rows(a) * Cols(a)
\* np.mean and np.std (population standard deviation) over the whole array
Mean(a) == Div(SumSeq(Concat(a)), Int2Num(Size(a)))
Std(a) ==
    LET Squares(f) == [i \in 1..Len(f) |-> Mul(f[i], f[i])]
        Root(f) == Sqrt(Div(SumSeq(Squares(f)), Int2Num(Len(f))))
    IN  With(Concat(With(Mean(a), LAMBDA m : ShiftM(a, m))), Root)

RECURSIVE Select(_, _)
\* x[mask] on flattened vectors: the entries where mask is true, in order
Select(x, mask) ==
    IF x = <<>> THEN <<>>
    ELSE (IF mask[1] THEN <<x[1]>> ELSE <<>>) \o Select(Tail(x), Tail(mask))

\* scipy.ndimage's 'reflect' boundary (d c b a | a b c d | d c b a), 1-based
RECURSIVE Reflect(_, _)
Reflect(i, n) ==
    IF i < 1 THEN Reflect(1 - i, n)
    ELSE IF i > n THEN Reflect(2 * n + 1 - i, n)
    ELSE i

\* scipy.ndimage.convolve(input, weights) for weights of odd size: the
\* kernel is flipped and centred on the pixel, the input reflected at its edge
Convolve(input, weights) ==
    LET kh == Rows(weights)
        kw == Cols(weights)
        ch == (kh \div 2) + 1
        cw == (kw \div 2) + 1
        h == Rows(input)
        w == Cols(input)
        Term(r, c, a, b) ==
            Mul(weights[a][b], input[Reflect(r - (a - ch), h)][Reflect(c - (b - cw), w)])
        At(r, c) ==
            SumSeq(Concat([a \in 1..kh |-> [b \in 1..kw |-> Term(r, c, a, b)]]))
    IN  [r \in 1..h |-> [c \in 1..w |-> At(r, c)]]

-----------------------------------------------------------------------------
(* Call outcomes *)

Raise(e) == [kind |-> "raise", val |-> e]
Returns(kind, v) == [kind |-> kind, val |-> v]
\* the Python object "..." the unwritten methods return
Ellipsis == [kind |-> "ellipsis", val |-> <<>>]

-----------------------------------------------------------------------------
(* MSLD.__init__ *)

\* Python's int(a / b) for b # 0: the quotient truncated towards zero
TruncDiv(a, b) ==
    IF (a >= 0) = (b > 0) THEN Abs(a) \div Abs(b) ELSE -(Abs(a) \div Abs(b))

\* int(180 / n_orientation), the step of the angles
AngleStep(n) == TruncDiv(180, n)

\* list(range(0, 180, step)) for step # 0
Angles(step) ==
    IF step < 0 THEN <<>>
    ELSE [k \in 1..((180 + step - 1) \div step) |-> (k - 1) * step]

\* the l x l kernel with 1/l on row l // 2 (0-based) and 0 elsewhere
LineDetector(l) ==
    [r \in 1..l |-> [c \in 1..l |->
        IF r = (l \div 2) + 1 THEN Div(One, Int2Num(l)) ELSE Zero]]

Transpose(m) == [r \in 1..Cols(m) |-> [c \in 1..Rows(m) |-> m[c][r]]]

\* cv2.warpAffine(line_detector, getRotationMatrix2D(centre, angle, 1), (l, l)).
\* A 1 x 1 kernel is its own rotation, a rotation by 0 is the identity, and a
\* rotation by 90 of an odd kernel about its centre pixel maps the centre row
\* onto the centre column.  Other rotations interpolate: their pixels are not
\* modelled and the kernel is kept as the empty array.
WarpAffine(line_detector, angle) ==
    IF Rows(line_detector) = 1 \/ angle = 0 THEN line_detector
    ELSE IF angle = 90 /\ Rows(line_detector) % 2 = 1 THEN Transpose(line_detector)
    ELSE <<>>

\* rotated_mask / rotated_mask.sum()
Normalised(rotated_mask) == DivM(rotated_mask, SumSeq(Concat(rotated_mask)))

\* one slice of the stack, with the angle it was built for
RotatedMask(l, angle) ==
    [angle |-> angle, px |-> Normalised(WarpAffine(LineDetector(l), angle))]

\* np.stack of the masks of every angle of the range
MaskStack(l, n) ==
    LET angles == Angles(AngleStep(n))
    IN  [k \in 1..Len(angles) |-> RotatedMask(l, angles[k])]

\* the exception one pass of the loop over L raises, "" for none:
\* np.zeros((l, l)) with l < 0, 1/l with l = 0, 180/n_orientation with 0,
\* range() with a zero step, np.stack of an empty list
MaskError(l, n) ==
    IF l < 0 THEN "ValueError"
    ELSE IF l = 0 THEN "ZeroDivisionError"
    ELSE IF n = 0 THEN "ZeroDivisionError"
    ELSE IF AngleStep(n) = 0 THEN "ValueError"
    ELSE IF Angles(AngleStep(n)) = <<>> THEN "ValueError"
    ELSE ""

RECURSIVE LoopError(_, _)
LoopError(ls, n) ==
    IF ls = <<>> THEN ""
    ELSE IF MaskError(ls[1], n) # "" THEN MaskError(ls[1], n)
    ELSE LoopError(Tail(ls), n)

\* the exception the constructor raises, "" for none: np.ones((W, W)) with
\* W < 0, then the loop
InitError(w, ls, n) == IF w < 0 THEN "ValueError" ELSE LoopError(ls, n)

\* np.ones((W, W)) * 1 / (W ** 2)
AvgMask(w) == DivM(ScaleM(One, Full(w, w, One)), Int2Num(w * w))

\* the fault of a constructor that leaves the threshold at zero
ZeroThreshold == Zero

\* the default of self.threshold
DefaultThreshold == Rat(1, 2)

\* the attributes the constructor leaves, but for the threshold
NewInstance(w, ls, n) ==
    [W |-> w, L |-> ls, n_orientation |-> n, avg_mask |-> AvgMask(w),
     line_detectors_masks |-> [l \in {ls[i] : i \in 1..Len(ls)} |-> MaskStack(l, n)]]

\* the instance a method is called on
Self ==
    [W |-> W, L |-> L, n_orientation |-> n_orientation, avg_mask |-> avg_mask,
     line_detectors_masks |-> line_detectors_masks]

-----------------------------------------------------------------------------
(* MSLD.basic_line_detector *)

\* the kernels the detector reads at scale l have modelled pixels
Modelled(self, l) ==
    \A n \in 1..self.n_orientation : self.line_detectors_masks[l][n].px # <<>>

\* so at every scale of self.L
Ready(self) == \A i \in 1..Len(self.L) : Modelled(self, self.L[i])

RECURSIVE MaxResponse(_, _, _)
\* matrice_max after the loop over the first n orientations: it starts as
\* np.zeros(grey_lvl.shape) and takes np.maximum with every convolution
MaxResponse(grey_lvl, line_detector, n) ==
    IF n <= 0 THEN Full(Rows(grey_lvl), Cols(grey_lvl), Zero)
    ELSE MaximumM(Convolve(grey_lvl, line_detector[n].px),
                  MaxResponse(grey_lvl, line_detector, n - 1))

\* R = matrice_max - I_avg
RawResponse(self, grey_lvl, l) ==
    SubM(MaxResponse(grey_lvl, self.line_detectors_masks[l], self.n_orientation),
         Convolve(grey_lvl, self.avg_mask))

\* R_prime = (R - np.mean(R)) / np.std(R)
Standardised(R) ==
    LET Centred(m) == ShiftM(R, m)
        Scaled(s) == DivM(With(Mean(R), Centred), s)
    IN  With(Std(R), Scaled)

\* the outcome of basic_line_detector(grey_lvl, l), l a key of the masks;
\* scipy's convolve refuses the empty averaging kernel of W = 0
BasicLineDetector(self, grey_lvl, l) ==
    IF Size(self.avg_mask) = 0 THEN Raise("RuntimeError")
    ELSE Returns("map", With(RawResponse(self, grey_lvl, l), Standardised))

-----------------------------------------------------------------------------
(* MSLD.multi_scale_line_detector *)

RECURSIVE SumResponses(_, _, _)
\* Rcombined after the first i scales of self.L, or the exception raised
SumResponses(self, image, i) ==
    IF i = 0 THEN Returns("map", Full(Rows(image), Cols(image), Zero))
    ELSE LET Sum(before, reponse) ==
                 IF before.kind = "raise" THEN before
                 ELSE IF reponse.kind = "raise" THEN reponse
                 ELSE Returns("map", AddM(before.val, reponse.val))
             Step(before) ==
                 With(BasicLineDetector(self, image, self.L[i]), LAMBDA r : Sum(before, r))
         IN  With(SumResponses(self, image, i - 1), Step)

\* the outcome of multi_scale_line_detector(image)
MultiScaleLineDetector(self, image) ==
    IF self.n_orientation + 1 = 0 THEN Raise("ZeroDivisionError")
    ELSE LET coefficient == Div(One, Int2Num(self.n_orientation + 1))
             Combined(Rcombined) ==
                 IF Rcombined.kind = "raise" THEN Rcombined
                 ELSE Returns("map", ScaleM(coefficient, AddM(Rcombined.val, image)))
         IN  With(SumResponses(self, image, Len(self.L)), Combined)

-----------------------------------------------------------------------------
(* sklearn.metrics.roc_curve *)

RECURSIVE SortDesc(_)
\* the values of a finite set of floats, largest first
SortDesc(S) ==
    IF S = {} THEN <<>>
    ELSE LET m == CHOOSE x \in S : \A y \in S : ~Less(x, y)
         IN  <<m>> \o SortDesc(S \ {m})

\* the number of samples of class cls whose score is at least t
CountAtLeast(y, y_score, cls, t) ==
    Cardinality({i \in 1..Len(y) : y[i] = cls /\ GreaterEq(y_score[i], t)})

\* the indices roc_curve keeps with drop_intermediate=True: the first, the
\* last, and those where the second difference of fps or tps is not zero
OptimalIdxs(fps, tps) ==
    IF Len(fps) <= 2 THEN 1..Len(fps)
    ELSE {j \in 1..Len(fps) :
            \/ j = 1
            \/ j = Len(fps)
            \/ fps[j + 1] - 2 * fps[j] + fps[j - 1] # 0
            \/ tps[j + 1] - 2 * tps[j] + tps[j - 1] # 0}

RECURSIVE Keep(_, _, _)
\* s[idxs], idxs a set of indices, in increasing order of index from j on
Keep(s, idxs, j) ==
    IF j > Len(s) THEN <<>>
    ELSE (IF j \in idxs THEN <<s[j]>> ELSE <<>>) \o Keep(s, idxs, j + 1)

\* counts / counts[-1], or NaNs when that class is absent (roc_curve warns)
Rates(counts) ==
    IF counts[Len(counts)] <= 0 THEN [i \in 1..Len(counts) |-> NaN]
    ELSE [i \in 1..Len(counts) |->
             Div(Int2Num(counts[i]), Int2Num(counts[Len(counts)]))]

\* roc_curve(y, y_score) on non-empty vectors without NaN: one point per
\* distinct score, largest first, the collinear points dropped, and a first
\* point (0, 0) whose threshold is inf (max score + 1 in older releases)
RocCurve(y, y_score, inf) ==
    LET Counts(distinct, cls) ==
            [j \in 1..Len(distinct) |-> CountAtLeast(y, y_score, cls, distinct[j])]
        First(distinct) == IF inf THEN Inf ELSE Add(distinct[1], One)
        Curve(distinct, fpsAll, tpsAll, idxs) ==
            [fpr |-> With(<<0>> \o Keep(fpsAll, idxs, 1), Rates),
             tpr |-> With(<<0>> \o Keep(tpsAll, idxs, 1), Rates),
             thresholds |-> <<First(distinct)>> \o Keep(distinct, idxs, 1)]
        Dropped(distinct, fpsAll, tpsAll) ==
            With(OptimalIdxs(fpsAll, tpsAll), LAMBDA idxs : Curve(distinct, fpsAll, tpsAll, idxs))
        Counted(distinct) ==
            With(Counts(distinct, FALSE), LAMBDA fpsAll :
                With(Counts(distinct, TRUE), LAMBDA tpsAll : Dropped(distinct, fpsAll, tpsAll)))
    IN  With(SortDesc({y_score[i] : i \in 1..Len(y_score)}), Counted)

\* the outcome of roc_curve on non-empty vectors: a NaN score is refused by
\* the input validation
RocCurveOutcome(y, y_score, inf) ==
    IF \E i \in 1..Len(y_score) : y_score[i].k = "nan" THEN Raise("ValueError")
    ELSE Returns("roc", RocCurve(y, y_score, inf))

-----------------------------------------------------------------------------
(* MSLD.roc *)

RECURSIVE Predictions(_, _)
\* the loop over the dataset: the lists y_true and y_pred of the ROI labels
\* and ROI predictions of every sample, or the exception a prediction raises
Predictions(self, dataset) ==
    IF dataset = <<>> THEN Returns("lists", [y_true |-> <<>>, y_pred |-> <<>>])
    ELSE LET n == Len(dataset)
             d == dataset[n]
             mask == Concat(d.mask)
             Appended(before, prediction) ==
                 IF before.kind = "raise" THEN before
                 ELSE IF prediction.kind = "raise" THEN prediction
                 ELSE Returns("lists",
                        [y_true |-> Append(before.val.y_true, Select(Concat(d.label), mask)),
                         y_pred |-> Append(before.val.y_pred, Select(Concat(prediction.val), mask))])
             Step(before) ==
                 With(MultiScaleLineDetector(self, d.image), LAMBDA p : Appended(before, p))
         IN  With(Predictions(self, SubSeq(dataset, 1, n - 1)), Step)

\* roc(dataset): stored tells whether self.y_true was assigned (line 295 is
\* reached), y_true is the vector assigned, res the outcome of the call;
\* np.concatenate refuses the empty list of an empty dataset
Roc(self, dataset, inf) ==
    LET Curve(lists) ==
            IF lists.kind = "raise"
            THEN [stored |-> FALSE, y_true |-> <<>>, res |-> lists]
            ELSE IF dataset = <<>>
            THEN [stored |-> FALSE, y_true |-> <<>>, res |-> Raise("ValueError")]
            ELSE [stored |-> TRUE, y_true |-> Concat(lists.val.y_true),
                  res |-> RocCurveOutcome(Concat(lists.val.y_true),
                                          Concat(lists.val.y_pred), inf)]
    IN  With(Predictions(self, dataset), Curve)

\* the fault of a roc that leaves the cached labels of an earlier call
StaleYTrue(r, before) == before

\* self.y_true once roc has run, from its value before
SelfYTrueAfter(r, before) == IF r.stored THEN [set |-> TRUE, v |-> r.y_true] ELSE before

-----------------------------------------------------------------------------
(* MSLD.learn_threshold *)

\* sum(self.y_true) over booleans
SumBool(y) == Cardinality({i \in 1..Len(y) : y[i]})

\* the accuracy of one ROC point, from the cached labels y
Accuracy(tpr_i, fpr_i, y) ==
    Div(Add(Mul(tpr_i, Int2Num(SumBool(y))),
            Mul(Sub(One, fpr_i), Int2Num(Len(y) - SumBool(y)))),
        Int2Num(Len(y)))

\* np.argmax (1-based): the first NaN if there is one, else the first maximum
ArgMax(s) ==
    IF \E i \in 1..Len(s) : s[i].k = "nan"
    THEN CHOOSE i \in 1..Len(s) :
            /\ s[i].k = "nan"
            /\ \A j \in 1..(i - 1) : s[j].k # "nan"
    ELSE CHOOSE i \in 1..Len(s) :
            /\ \A j \in 1..Len(s) : ~Less(s[i], s[j])
            /\ \A j \in 1..(i - 1) : Less(s[j], s[i])

\* the pair learn_threshold returns from the ROC curve and the cached labels
BestThreshold(curve, y) ==
    LET accuracies == [i \in 1..Len(curve.tpr) |-> Accuracy(curve.tpr[i], curve.fpr[i], y)]
        Best(acc, best_threshold_index) ==
            <<curve.thresholds[best_threshold_index], acc[best_threshold_index]>>
    IN  With(accuracies, LAMBDA acc : With(ArgMax(acc), LAMBDA i : Best(acc, i)))

-----------------------------------------------------------------------------
(* dice *)

\* np.sum over a boolean array
CountTrue(a) == Cardinality({i \in 1..Len(Concat(a)) : Concat(a)[i]})

\* np.sum(targets * predictions): the pixels true in both arrays
CountBoth(a, b) ==
    Cardinality({i \in 1..Len(Concat(a)) : Concat(a)[i] /\ Concat(b)[i]})

\* 2 * np.sum(targets * predictions) / (targets.sum() + predictions.sum())
DiceIndex(targets, predictions) ==
    Div(Int2Num(2 * CountBoth(targets, predictions)),
        Int2Num(CountTrue(targets) + CountTrue(predictions)))

-----------------------------------------------------------------------------
(* Inputs *)

\* the longest dataset
MaxSamples == 2

\* constructor arguments (W, L, n_orientation): sound ones, and one or two of
\* every kind the constructor may be given by mistake
Configs ==
    { <<3, <<3>>, 2>>, <<3, <<1, 3>>, 2>>, <<3, <<3>>, 7>>, <<3, <<1>>, 7>>,
      <<3, <<>>, 2>>, <<0, <<3>>, 2>>, <<-1, <<3>>, 2>>,
      <<3, <<0>>, 2>>, <<3, <<3, -1>>, 2>>,
      <<3, <<3>>, 0>>, <<3, <<3>>, -1>>, <<3, <<3>>, 181>>,
      <<3, <<>>, 0>>, <<3, <<>>, -1>> }

Scales == {1, 3}

ImgCross == FloatImage(<<<<0, 1>>, <<1, 0>>>>)
ImgRows == FloatImage(<<<<-1, -1>>, <<1, 1>>>>)
ImgZero == FloatImage(<<<<0, 0>>, <<0, 0>>>>)
ImgNeg == FloatImage(<<<<-1, -1>>, <<-1, -1>>>>)
ImgPair == FloatImage(<<<<1, 2>>>>)
Images == {ImgCross, ImgRows, ImgZero, ImgNeg, ImgPair}

AllTrue(h, w) == Full(h, w, TRUE)
AllFalse(h, w) == Full(h, w, FALSE)

\* samples {image, label, mask}, each with a pixel in its ROI: both classes
\* in the ROI; negatives only; a constant image; positives only
Samples ==
    { [image |-> ImgCross, label |-> <<<<FALSE, TRUE>>, <<TRUE, FALSE>>>>, mask |-> AllTrue(2, 2)],
      [image |-> ImgRows, label |-> <<<<FALSE, FALSE>>, <<FALSE, TRUE>>>>,
       mask |-> <<<<TRUE, TRUE>>, <<TRUE, FALSE>>>>],
      [image |-> ImgZero, label |-> <<<<TRUE, FALSE>>, <<FALSE, FALSE>>>>, mask |-> AllTrue(2, 2)],
      [image |-> ImgPair, label |-> <<<<TRUE, TRUE>>>>, mask |-> <<<<TRUE, FALSE>>>>] }

RECURSIVE SeqsUpTo(_, _)
\* the sequences over S of length at most n
SeqsUpTo(S, n) ==
    IF n = 0 THEN {<<>>}
    ELSE LET shorter == SeqsUpTo(S, n - 1)
         IN  shorter \cup {Append(q, x) : q \in shorter, x \in S}

Datasets == SeqsUpTo(Samples, MaxSamples)

\* the argument of a method that never reads it: one dataset stands for all
Unread == {<<>>}

BoolArrays ==
    { AllFalse(2, 2), <<<<TRUE, FALSE>>, <<FALSE, FALSE>>>>,
      <<<<FALSE, TRUE>>, <<FALSE, TRUE>>>> }

\* the instances the constructor can build from Configs
Instances ==
    {NewInstance(c[1], c[2], c[3]) : c \in {k \in Configs : InitError(k[1], k[2], k[3]) = ""}}

\* the outcomes of the methods on those instances and inputs, computed once;
\* an entry is read only where the call is modelled
Unmodelled == Raise("")
BasicLineDetectorOf ==
    [self \in Instances, grey_lvl \in Images, l \in Scales |->
        IF l \in DOMAIN self.line_detectors_masks /\ Modelled(self, l)
        THEN BasicLineDetector(self, grey_lvl, l) ELSE Unmodelled]
MultiScaleLineDetectorOf ==
    [self \in Instances, image \in Images |->
        IF Ready(self) THEN MultiScaleLineDetector(self, image) ELSE Unmodelled]
RocOf ==
    [self \in Instances, dataset \in Datasets, inf \in BOOLEAN |->
        IF dataset = <<>> \/ Ready(self) THEN Roc(self, dataset, inf)
        ELSE [stored |-> FALSE, y_true |-> <<>>, res |-> Unmodelled]]

-----------------------------------------------------------------------------
(* The calls *)

NoCall == [op |-> "", arg |-> <<>>]

Init ==
    /\ constructed = FALSE
    /\ W = 0
    /\ L = <<>>
    /\ n_orientation = 0
    /\ threshold = Unset
    /\ avg_mask = <<>>
    /\ line_detectors_masks = <<>>
    /\ y_true = [set |-> FALSE, v |-> <<>>]
    /\ inf_first \in BOOLEAN
    /\ call = NoCall
    /\ ret = [kind |-> "none", val |-> <<>>]

\* msld = MSLD(W=w, L=ls, n_orientation=n)
MSLD_init(w, ls, n) ==
    /\ ~constructed
    /\ call' = [op |-> "__init__", arg |-> <<w, ls, n>>]
    /\ IF InitError(w, ls, n) # ""
       THEN /\ ret' = Raise(InitError(w, ls, n))
            /\ UNCHANGED <<instance, threshold>>
       ELSE /\ constructed' = TRUE
            /\ W' = w
            /\ L' = ls
            /\ n_orientation' = n
            /\ threshold' = DefaultThreshold
            /\ avg_mask' = NewInstance(w, ls, n).avg_mask
            /\ line_detectors_masks' = NewInstance(w, ls, n).line_detectors_masks
            /\ ret' = Returns("instance", <<>>)
    /\ UNCHANGED <<y_true, inf_first>>

\* msld.basic_line_detector(grey_lvl, l)
basic_line_detector(grey_lvl, l) ==
    /\ constructed
    /\ l \in DOMAIN line_detectors_masks
    /\ Modelled(Self, l)
    /\ call' = [op |-> "basic_line_detector", arg |-> <<grey_lvl, l>>]
    /\ ret' = BasicLineDetectorOf[Self, grey_lvl, l]
    /\ UNCHANGED <<instance, threshold, y_true, inf_first>>

\* msld.multi_scale_line_detector(image)
multi_scale_line_detector(image) ==
    /\ constructed
    /\ Ready(Self)
    /\ call' = [op |-> "multi_scale_line_detector", arg |-> image]
    /\ ret' = MultiScaleLineDetectorOf[Self, image]
    /\ UNCHANGED <<instance, threshold, y_true, inf_first>>

\* msld.roc(dataset)
roc(dataset) ==
    /\ constructed
    /\ dataset # <<>> => Ready(Self)
    /\ call' = [op |-> "roc", arg |-> dataset]
    /\ \E r \in {RocOf[Self, dataset, inf_first]} :
          /\ y_true' = SelfYTrueAfter(r, y_true)
          /\ ret' = r.res
    /\ UNCHANGED <<instance, threshold, inf_first>>

\* msld.learn_threshold(dataset): roc, then the accuracies from self.y_true
learn_threshold(dataset) ==
    /\ constructed
    /\ dataset # <<>> => Ready(Self)
    /\ call' = [op |-> "learn_threshold", arg |-> dataset]
    /\ \E r \in {RocOf[Self, dataset, inf_first]} :
          /\ y_true' = SelfYTrueAfter(r, y_true)
          /\ IF r.res.kind = "raise"
             THEN /\ ret' = r.res
                  /\ UNCHANGED threshold
             ELSE \E best \in {BestThreshold(r.res.val, y_true'.v)} :
                  /\ threshold' = best[1]
                  /\ ret' = Returns("pair", best)
    /\ UNCHANGED <<instance, inf_first>>

\* msld.segment_vessels(image): the body is "vessels = ..."
segment_vessels(image) ==
    /\ constructed
    /\ call' = [op |-> "segment_vessels", arg |-> image]
    /\ ret' = Ellipsis
    /\ UNCHANGED <<instance, threshold, y_true, inf_first>>

\* msld.naive_metrics(dataset): returns the pair (..., ...); the dataset is
\* not read
naive_metrics(dataset) ==
    /\ constructed
    /\ call' = [op |-> "naive_metrics", arg |-> <<>>]
    /\ ret' = Returns("pair", <<Ellipsis, Ellipsis>>)
    /\ UNCHANGED <<instance, threshold, y_true, inf_first>>

\* msld.dice(dataset): returns "..."; the dataset is not read
MSLD_dice(dataset) ==
    /\ constructed
    /\ call' = [op |-> "MSLD.dice", arg |-> <<>>]
    /\ ret' = Ellipsis
    /\ UNCHANGED <<instance, threshold, y_true, inf_first>>

\* msld.plot_roc(dataset): returns "..."; the dataset is not read
plot_roc(dataset) ==
    /\ constructed
    /\ call' = [op |-> "plot_roc", arg |-> <<>>]
    /\ ret' = Ellipsis
    /\ UNCHANGED <<instance, threshold, y_true, inf_first>>

\* the module-level dice(targets, predictions)
dice(targets, predictions) ==
    /\ call' = [op |-> "dice", arg |-> <<targets, predictions>>]
    /\ ret' = Returns("float", DiceIndex(targets, predictions))
    /\ UNCHANGED <<instance, threshold, y_true, inf_first>>

Next ==
    \/ \E c \in Configs : MSLD_init(c[1], c[2], c[3])
    \/ \E grey_lvl \in Images, l \in Scales : basic_line_detector(grey_lvl, l)
    \/ \E image \in Images : multi_scale_line_detector(image)
    \/ \E dataset \in Datasets : roc(dataset)
    \/ \E dataset \in Datasets : learn_threshold(dataset)
    \/ \E image \in Images : segment_vessels(image)
    \/ \E dataset \in Unread : naive_metrics(dataset)
    \/ \E dataset \in Unread : MSLD_dice(dataset)
    \/ \E dataset \in Unread : plot_roc(dataset)
    \/ \E targets \in BoolArrays, predictions \in BoolArrays : dice(targets, predictions)

Spec == Init /\ [][Next]_vars

-----------------------------------------------------------------------------
(* Properties *)

\* the configurations said to be refused: a window below 1, no scale, a scale
\* below 1, fewer than one orientation
InvalidConfig(w, ls, n) ==
    \/ w < 1
    \/ ls = <<>>
    \/ \E i \in 1..Len(ls) : ls[i] < 1
    \/ n < 1

\* the instance was built from a configuration that is not one of those
Configured == constructed /\ ~InvalidConfig(W, L, n_orientation)

\* the labels of the ROI pixels of a dataset, sample after sample
RoiLabels(dataset) ==
    Concat([i \in 1..Len(dataset) |->
                Select(Concat(dataset[i].label), Concat(dataset[i].mask))])

\* the ROI of the dataset holds a positive and a negative pixel
BothClasses(dataset) ==
    /\ \E i \in 1..Len(RoiLabels(dataset)) : RoiLabels(dataset)[i]
    /\ \E i \in 1..Len(RoiLabels(dataset)) : ~RoiLabels(dataset)[i]

\* the pair the learner is to return from a ROC curve and the counts P and N
BestOfCurve(curve, P, N) ==
    LET acc == [i \in 1..Len(curve.tpr) |->
                   Div(Add(Mul(curve.tpr[i], Int2Num(P)),
                           Mul(Sub(One, curve.fpr[i]), Int2Num(N))),
                       Int2Num(P + N))]
        first == CHOOSE i \in 1..Len(acc) :
                    /\ \A j \in 1..Len(acc) : GreaterEq(acc[i], acc[j])
                    /\ \A j \in 1..(i - 1) : Less(acc[j], acc[i])
    IN  <<curve.thresholds[first], acc[first]>>

\* C1: learn_threshold on a dataset whose ROI holds both classes returns the
\* pair (thresholds[i], accuracy_i) of the first index i at which
\* accuracy_i = (tpr_i * P + (1 - fpr_i) * N) / (P + N) is maximal, P and N the
\* positive and negative ROI pixel counts of the dataset, and stores
\* thresholds[i] as the threshold.
C1_LearnsMostAccurateThreshold ==
    (call.op = "learn_threshold" /\ Configured /\ BothClasses(call.arg)) =>
        /\ ret.kind = "pair"
        /\ RocOf[Self, call.arg, inf_first].res.kind = "roc"
        /\ ret.val = BestOfCurve(RocOf[Self, call.arg, inf_first].res.val,
                                 SumBool(RoiLabels(call.arg)),
                                 Len(RoiLabels(call.arg)) - SumBool(RoiLabels(call.arg)))
        /\ threshold = ret.val[1]

\* the methods and the function said to leave the threshold alone
ReadOnlyOps ==
    {"basic_line_detector", "multi_scale_line_detector", "segment_vessels", "roc",
     "naive_metrics", "MSLD.dice", "dice", "plot_roc"}

\* C2: the stored threshold is 0.5 right after construction, and no call of
\* basic_line_detector, multi_scale_line_detector, segment_vessels, roc,
\* naive_metrics, dice or plot_roc changes it: only learn_threshold does.
C2_ThresholdFrame ==
    [][/\ (~constructed /\ constructed') => threshold' = Rat(1, 2)
       /\ call'.op \in ReadOnlyOps => threshold' = threshold]_vars

\* C2 witness: a ROC curve was computed on an instance whose threshold had been
\* learnt, and the learnt threshold is still the stored one.
C2_Witness ==
    /\ call.op = "roc"
    /\ ret.kind = "roc"
    /\ threshold.k = "rat"
    /\ threshold # Rat(1, 2)

\* the boolean map with TRUE where the response reaches the threshold
AtLeast(response, t) ==
    [r \in 1..Rows(response) |-> [c \in 1..Cols(response) |-> GreaterEq(response[r][c], t)]]

\* C3: segment_vessels(image) returns the boolean map, of the shape of the
\* image, that is true exactly where the combined response of the image is >=
\* the stored threshold, and changes no state of the instance.
C3_SegmentThresholdsResponse ==
    (/\ call.op = "segment_vessels"
     /\ Configured
     /\ Ready(Self)
     /\ MultiScaleLineDetectorOf[Self, call.arg].kind = "map") =>
        /\ ret.kind = "bool_map"
        /\ ret.val = AtLeast(MultiScaleLineDetectorOf[Self, call.arg].val, threshold)

\* C4: learn_threshold on an empty dataset, or on one whose ROI labels hold a
\* single class, fails with a DegenerateDatasetError and returns no pair.
C4_DegenerateDatasetRejected ==
    (call.op = "learn_threshold" /\ Configured /\ ~BothClasses(call.arg)) =>
        ret = Raise("DegenerateDatasetError")

\* C5: constructing MSLD with an invalid window size, an empty scale list, a
\* scale l < 1 or n_orientation < 1 fails with a ConfigurationError and
\* produces no instance.
C5_InvalidConfigRejected ==
    (call.op = "__init__" /\ InvalidConfig(call.arg[1], call.arg[2], call.arg[3])) =>
        /\ ret = Raise("ConfigurationError")
        /\ ~constructed

\* what learn_threshold(dataset) yields on the instance when the accuracies
\* are computed from the ROI labels of that very dataset
LearnOutcome(self, dataset, inf) ==
    LET Outcome(r) ==
            IF r.res.kind = "raise" THEN r.res
            ELSE Returns("pair", BestThreshold(r.res.val, RoiLabels(dataset)))
    IN  With(RocOf[self, dataset, inf], Outcome)

\* C6: the outcome of learn_threshold(d) depends on d alone, whatever calls of
\* roc or learn_threshold on other datasets came before on the instance: it is
\* the one computed from the labels of d, so a second call on d yields the
\* same pair, and the threshold stored is the one returned.
C6_LearnDependsOnDatasetOnly ==
    call.op = "learn_threshold" =>
        /\ ret = LearnOutcome(Self, call.arg, inf_first)
        /\ ret.kind = "pair" => threshold = ret.val[1]
        /\ ret.kind = "pair" => y_true = [set |-> TRUE, v |-> RoiLabels(call.arg)]

\* C6 witness: learn_threshold returned a pair with a finite accuracy below 1
\* for a dataset of two different samples whose ROIs hold both classes.
C6_Witness ==
    /\ call.op = "learn_threshold"
    /\ Len(call.arg) = 2
    /\ call.arg[1] # call.arg[2]
    /\ BothClasses(call.arg)
    /\ ret.kind = "pair"
    /\ ret.val[2].k = "rat"
    /\ Less(ret.val[2], One)
    /\ threshold = ret.val[1]

\* C7: dice on two all-false boolean arrays returns exactly 1.0.
C7_DiceOfEmptyIsOne ==
    (/\ call.op = "dice"
     /\ CountTrue(call.arg[1]) + CountTrue(call.arg[2]) = 0) =>
        ret = Returns("float", One)

\* C8: basic_line_detector on an input whose raw response R has a zero
\* standard deviation returns the all-zero map of the shape of the input.
C8_ConstantResponseGivesZeroMap ==
    (/\ call.op = "basic_line_detector"
     /\ Configured
     /\ Std(RawResponse(Self, call.arg[1], call.arg[2])) = Zero) =>
        ret = Returns("map", Full(Rows(call.arg[1]), Cols(call.arg[1]), Zero))

\* C9: for n_orientation = N >= 1 and every scale l of L the constructor
\* builds a stack of exactly N slices, slice k (from 0) being the kernel
\* rotated by k * 180 / N degrees, also when N does not divide 180 and when
\* N > 180.
C9_StackHasOneSlicePerOrientation ==
    (/\ call.op = "__init__"
     /\ ~InvalidConfig(call.arg[1], call.arg[2], call.arg[3])) =>
        /\ constructed
        /\ \A l \in DOMAIN line_detectors_masks :
              /\ Len(line_detectors_masks[l]) = n_orientation
              /\ \A k \in 1..Len(line_detectors_masks[l]) :
                    line_detectors_masks[l][k].angle * n_orientation = (k - 1) * 180

RECURSIVE PointwiseMax(_, _, _)
\* the pointwise maximum of the convolutions with the first n kernels, n >= 1
PointwiseMax(grey_lvl, line_detector, n) ==
    IF n = 1 THEN Convolve(grey_lvl, line_detector[1].px)
    ELSE MaximumM(Convolve(grey_lvl, line_detector[n].px),
                  PointwiseMax(grey_lvl, line_detector, n - 1))

\* C10: in basic_line_detector the maximal response at every pixel is the
\* maximum over the n_orientation kernels of the convolution of the map with
\* the kernel, also where every such response is negative.
C10_MaxResponseIsMaxOverKernels ==
    (/\ call.op = "basic_line_detector"
     /\ Configured) =>
        MaxResponse(call.arg[1], line_detectors_masks[call.arg[2]], n_orientation)
            = PointwiseMax(call.arg[1], line_detectors_masks[call.arg[2]], n_orientation)

=============================================================================
